---- MODULE Spec2Model ----
(***************************************************************************)
(* Model of rust-spice's src/core/neat.rs: the six adapters bodc2n,        *)
(* et2lst, timout, dskp02, dskv02 and kdata over the generated raw         *)
(* bindings to CSPICE.                                                     *)
(*                                                                         *)
(* One caller thread is observed.  Each adapter is modelled by the raw     *)
(* calls its body issues (fn and argument list, in the order written in    *)
(* the source) and by the value its tail expression returns.  The raw      *)
(* bindings and the library behind them are not part of neat.rs: they are  *)
(* modelled after the CSPICE conventions (an output length counts the      *)
(* terminating NUL, kdata's index is 0-based, plates and vertices are      *)
(* 1-based).  Floating point arguments are modelled by integers.           *)
(*                                                                         *)
(* neat.rs declares no static, field or cache: the layer has no state of   *)
(* its own, so the model has no variable for it.  seg is the library's     *)
(* state; the other variables record the invocation being observed.        *)
(*                                                                         *)
(* Strings are TLA+ strings; Len, SubSeq and \o act on them bytewise.      *)
(***************************************************************************)
EXTENDS Integers, Sequences, FiniteSets, TLC

VARIABLES
    seg,      \* library state: dladsc -> [nv, np], the type 2 DSK segments
    pc,       \* "idle" | "sized" (between dskz02 and the fetch) | "done" | "raised"
    inv,      \* the adapter invocation in progress or last finished: [fn, args]
    calls,    \* raw calls issued by that invocation, in order: Seq([fn, args])
    rets,     \* the outcomes of those raw calls, in order
    ret,      \* what the adapter handed to its caller
    atSize,   \* <<nv, np>> of the addressed segment when dskz02 ran
    atFetch   \* <<n>>: how many items of the fetched kind it had when the fetch ran

vars == <<seg, pc, inv, calls, rets, ret, atSize, atFetch>>

(***************************************************************************)
(* Bounds and input sets                                                   *)
(***************************************************************************)
MaxCount == 2

Counts == 0..MaxCount
Codes == {399, -7}
Ets == {2678400}
Bodies == {399}
Lons == {0, 90}
LonTypes == {"PLANETOCENTRIC", "BOGUS"}
Pictures == {"", "YYYY", "Month", "MON DD ::TDB"}
Handles == {1}
Dladscs == {1, 2}
Whichs == {0, 2}
Kinds == {"ALL", "SPK"}

(***************************************************************************)
(* crate::MAX_LEN_OUT, imported at neat.rs:17                              *)
(***************************************************************************)
MAX_LEN_OUT == 40

(***************************************************************************)
(* Outcomes of a raw call: a value, or an error raised by the library      *)
(***************************************************************************)
Ok(v) == [val |-> v, err |-> ""]
Raise(e) == [val |-> <<>>, err |-> e]
NoRet == [val |-> <<>>, err |-> "none"]
NoInv == [fn |-> "", args |-> <<>>]

Min(a, b) == IF a < b THEN a ELSE b
Max(a, b) == IF a > b THEN a ELSE b

\* A C output buffer of lenout bytes holds lenout - 1 characters and a NUL.
Trunc(s, lenout) ==
    IF lenout - 1 <= 0 THEN ""
    ELSE IF Len(s) <= lenout - 1 THEN s
    ELSE SubSeq(s, 1, lenout - 1)

StartsWith(s, t) == Len(s) >= Len(t) /\ SubSeq(s, 1, Len(t)) = t
Drop(s, n) == IF n >= Len(s) THEN "" ELSE SubSeq(s, n + 1, Len(s))

DigitChar == <<"0", "1", "2", "3", "4", "5", "6", "7", "8", "9">>

RECURSIVE Dec(_, _)
\* n >= 0 in decimal, zero padded to width digits
Dec(n, width) ==
    IF width <= 1 /\ n < 10 THEN DigitChar[n + 1]
    ELSE Dec(n \div 10, width - 1) \o DigitChar[(n % 10) + 1]

RECURSIVE TrimRight(_)
TrimRight(s) ==
    IF s = "" THEN ""
    ELSE IF SubSeq(s, Len(s), Len(s)) = " " THEN TrimRight(SubSeq(s, 1, Len(s) - 1))
    ELSE s

(***************************************************************************)
(* The library behind raw::, after the CSPICE documentation                *)
(***************************************************************************)
MonthStart == <<0, 31, 60, 91, 121, 152, 182, 213, 244, 274, 305, 335>>
MonthName == <<"January", "February", "March", "April", "May", "June", "July",
               "August", "September", "October", "November", "December">>
MonthAbbr == <<"JAN", "FEB", "MAR", "APR", "MAY", "JUN", "JUL",
               "AUG", "SEP", "OCT", "NOV", "DEC">>

\* et is TDB seconds past J2000 (2000-01-01 12:00:00); dates within 2000.
DayNo(et) == (et + 43200) \div 86400
MonthIdx(et) ==
    CHOOSE m \in 1..12 :
        /\ MonthStart[m] <= DayNo(et)
        /\ (m = 12 \/ DayNo(et) < MonthStart[m + 1])
DayOfMonth(et) == DayNo(et) - MonthStart[MonthIdx(et)] + 1
YearOf(et) == 2000 + (DayNo(et) \div 366)

RECURSIVE Substitute(_, _)
\* The picture with every marker replaced; other characters are copied.
Substitute(et, p) ==
    IF p = "" THEN ""
    ELSE IF StartsWith(p, "::TDB") THEN Substitute(et, Drop(p, 5))
    ELSE IF StartsWith(p, "YYYY") THEN Dec(YearOf(et), 4) \o Substitute(et, Drop(p, 4))
    ELSE IF StartsWith(p, "Month") THEN MonthName[MonthIdx(et)] \o Substitute(et, Drop(p, 5))
    ELSE IF StartsWith(p, "MON") THEN MonthAbbr[MonthIdx(et)] \o Substitute(et, Drop(p, 3))
    ELSE IF StartsWith(p, "DD") THEN Dec(DayOfMonth(et), 2) \o Substitute(et, Drop(p, 2))
    ELSE SubSeq(p, 1, 1) \o Substitute(et, Drop(p, 1))

\* The complete formatted string, whatever room the caller offers.
TimoutFormat(et, pictur) == TrimRight(Substitute(et, pictur))

raw_timout(et, pictur, lenout) ==
    IF pictur = "" THEN Raise("SPICE(EMPTYSTRING)")
    ELSE IF lenout < 2 THEN Raise("SPICE(STRINGTOOSHORT)")
    ELSE Ok(<<Trunc(TimoutFormat(et, pictur), lenout)>>)

BodyName(code) ==
    IF code = 399 THEN "EARTH" ELSE IF code = 301 THEN "MOON" ELSE ""

raw_bodc2n(code, lenout) ==
    Ok(<<Trunc(BodyName(code), lenout), BodyName(code) # "">>)

\* Local solar seconds of day: a stand-in that depends on every input.
SolarSecs(et, body_code, lon) ==
    (et + 43200 + lon * 240 + (body_code % 7) * 3600) % 86400

Clock(h, m, s) == Dec(h, 2) \o ":" \o Dec(m, 2) \o ":" \o Dec(s, 2)

raw_et2lst(et, body_code, lon, lon_type, timlen, ampmlen) ==
    IF lon_type \notin {"PLANETOCENTRIC", "PLANETOGRAPHIC"}
    THEN Raise("SPICE(UNKNOWNSYSTEM)")
    ELSE LET t == SolarSecs(et, body_code, lon)
             hr == t \div 3600
             mn == (t % 3600) \div 60
             sc == t % 60
             h12 == IF hr % 12 = 0 THEN 12 ELSE hr % 12
             half == IF hr < 12 THEN " A.M." ELSE " P.M."
         IN Ok(<<hr, mn, sc,
                 Trunc(Clock(hr, mn, sc), timlen),
                 Trunc(Clock(h12, mn, sc) \o half, ampmlen)>>)

LoadedKernels ==
    << [file |-> "naif0012.tls", type |-> "TEXT", source |-> "hera.tm", handle |-> 0],
       [file |-> "de432s.bsp", type |-> "SPK", source |-> "hera.tm", handle |-> 3],
       [file |-> "hera.tm", type |-> "META", source |-> "", handle |-> 0] >>

OfKind(k, kind) == kind = "ALL" \/ k.type = kind

\* which is 0-based among the loaded kernels of the kind asked for.
raw_kdata(which, kind, fillen, typlen, srclen) ==
    LET m == SelectSeq(LoadedKernels, LAMBDA k : OfKind(k, kind))
    IN IF which >= 0 /\ which < Len(m)
       THEN Ok(<<Trunc(m[which + 1].file, fillen),
                 Trunc(m[which + 1].type, typlen),
                 Trunc(m[which + 1].source, srclen),
                 m[which + 1].handle, TRUE>>)
       ELSE Ok(<<"", "", "", 0, FALSE>>)

\* Plate i of a segment is a triple of vertex numbers, vertex i three coordinates.
PlateAt(dladsc, i) == <<i, i + 1, i + dladsc + 1>>
VertexAt(dladsc, i) == <<10 * i, dladsc, 0 - i>>

raw_dskz02(handle, dladsc, s) == Ok(<<s[dladsc].nv, s[dladsc].np>>)

\* Up to room plates from number start on, as many as the segment has.
raw_dskp02(handle, dladsc, start, room, s) ==
    LET n == Max(0, Min(room, s[dladsc].np - start + 1))
    IN Ok([i \in 1..n |-> PlateAt(dladsc, start + i - 1)])

raw_dskv02(handle, dladsc, start, room, s) ==
    LET n == Max(0, Min(room, s[dladsc].nv - start + 1))
    IN Ok([i \in 1..n |-> VertexAt(dladsc, start + i - 1)])

\* The outcome of raw call c against library state s.
Raw(c, s) ==
    LET a == c.args
    IN CASE c.fn = "bodc2n" -> raw_bodc2n(a[1], a[2])
         [] c.fn = "et2lst" -> raw_et2lst(a[1], a[2], a[3], a[4], a[5], a[6])
         [] c.fn = "timout" -> raw_timout(a[1], a[2], a[3])
         [] c.fn = "kdata" -> raw_kdata(a[1], a[2], a[3], a[4], a[5])
         [] c.fn = "dskz02" -> raw_dskz02(a[1], a[2], s)
         [] c.fn = "dskp02" -> raw_dskp02(a[1], a[2], a[3], a[4], s)
         [] c.fn = "dskv02" -> raw_dskv02(a[1], a[2], a[3], a[4], s)

(***************************************************************************)
(* The adapters of neat.rs: the raw calls each body issues, and what its   *)
(* tail expression returns given the outcomes rs of those calls            *)
(***************************************************************************)
\* Mutant of bodc2n: a retry of the raw call.
bodc2n_retry(code) ==
    << [fn |-> "bodc2n", args |-> <<code, MAX_LEN_OUT>>],
       [fn |-> "bodc2n", args |-> <<code, MAX_LEN_OUT>>] >>

bodc2n(code) ==
    << [fn |-> "bodc2n", args |-> <<code, MAX_LEN_OUT>>] >>

\* Mutant of bodc2n_ret: a default name put in place of "not found".
bodc2n_ret_default(rs) ==
    IF rs[1].val[2] THEN rs[1] ELSE Ok(<<"UNKNOWN", TRUE>>)

bodc2n_ret(rs) == rs[1]

\* Mutant of et2lst: et and lon change places.
et2lst_swapped(et, body_code, lon, lon_type) ==
    << [fn |-> "et2lst",
        args |-> <<lon, body_code, et, lon_type, MAX_LEN_OUT, MAX_LEN_OUT>>] >>

et2lst(et, body_code, lon, lon_type) ==
    << [fn |-> "et2lst",
        args |-> <<et, body_code, lon, lon_type, MAX_LEN_OUT, MAX_LEN_OUT>>] >>

et2lst_ret(rs) == rs[1]

\* Mutant of timout: the default length, as the other adapters pass.
timout_default(et, pictur) ==
    << [fn |-> "timout", args |-> <<et, pictur, MAX_LEN_OUT>>] >>

timout(et, pictur) ==
    << [fn |-> "timout", args |-> <<et, pictur, Len(pictur)>>] >>

timout_ret(rs) == rs[1]

\* Mutant of kdata: the last length taken from the kind string.
kdata_short(which, kind) ==
    << [fn |-> "kdata",
        args |-> <<which, kind, MAX_LEN_OUT, MAX_LEN_OUT, Len(kind)>>] >>

kdata(which, kind) ==
    << [fn |-> "kdata",
        args |-> <<which, kind, MAX_LEN_OUT, MAX_LEN_OUT, MAX_LEN_OUT>>] >>

kdata_ret(rs) == rs[1]

\* let (_nv, np) = raw::dskz02(handle, dladsc);
dskp02_size(handle, dladsc) == [fn |-> "dskz02", args |-> <<handle, dladsc>>]

\* Mutants of dskp02_fetch: the vertex count for room; the default length for room.
dskp02_fetch_nv(handle, dladsc, size) ==
    [fn |-> "dskp02", args |-> <<handle, dladsc, 1, size[1]>>]

dskp02_fetch_default(handle, dladsc, size) ==
    [fn |-> "dskp02", args |-> <<handle, dladsc, 1, MAX_LEN_OUT>>]

\* raw::dskp02(handle, dladsc, 1, np as _), size being dskz02's (nv, np)
dskp02_fetch(handle, dladsc, size) ==
    [fn |-> "dskp02", args |-> <<handle, dladsc, 1, size[2]>>]

dskp02_ret(rs) == rs[2]

\* let (nv, _np) = raw::dskz02(handle, dladsc);
dskv02_size(handle, dladsc) == [fn |-> "dskz02", args |-> <<handle, dladsc>>]

\* Mutant of dskv02_fetch: the plate count for room.
dskv02_fetch_np(handle, dladsc, size) ==
    [fn |-> "dskv02", args |-> <<handle, dladsc, 1, size[2]>>]

\* raw::dskv02(handle, dladsc, 1, nv as _)
dskv02_fetch(handle, dladsc, size) ==
    [fn |-> "dskv02", args |-> <<handle, dladsc, 1, size[1]>>]

dskv02_ret(rs) == rs[2]

(***************************************************************************)
(* Steps of the observed caller                                            *)
(***************************************************************************)
Returned == pc \in {"idle", "done", "raised"}

SegNow(dladsc) == <<seg[dladsc].nv, seg[dladsc].np>>

\* The outcomes of raw calls cs against the library as it is now.
Outcomes(cs) == [i \in 1..Len(cs) |-> Raw(cs[i], seg)]

\* A body of straight-line raw calls cs: each runs against the library; an
\* error raised by one ends the body there and reaches the caller, nothing
\* in neat.rs catching it.  r is the value of the tail expression.
Body(f, a, cs, r) ==
    /\ Returned
    /\ inv' = [fn |-> f, args |-> a]
    /\ LET rs == Outcomes(cs)
           bad == {i \in 1..Len(cs) : rs[i].err # ""}
           k == IF bad = {} THEN Len(cs)
                ELSE CHOOSE i \in bad : \A j \in bad : i <= j
       IN /\ calls' = SubSeq(cs, 1, k)
          /\ rets' = SubSeq(rs, 1, k)
          /\ pc' = IF bad = {} THEN "done" ELSE "raised"
          /\ ret' = IF bad = {} THEN r ELSE rs[k]
    /\ atSize' = <<>>
    /\ atFetch' = <<>>
    /\ UNCHANGED seg

Do_bodc2n(code) ==
    Body("bodc2n", <<code>>, bodc2n(code), bodc2n_ret(Outcomes(bodc2n(code))))

Do_et2lst(et, body_code, lon, lon_type) ==
    Body("et2lst", <<et, body_code, lon, lon_type>>,
         et2lst(et, body_code, lon, lon_type),
         et2lst_ret(Outcomes(et2lst(et, body_code, lon, lon_type))))

Do_timout(et, pictur) ==
    Body("timout", <<et, pictur>>, timout(et, pictur),
         timout_ret(Outcomes(timout(et, pictur))))

Do_kdata(which, kind) ==
    Body("kdata", <<which, kind>>, kdata(which, kind),
         kdata_ret(Outcomes(kdata(which, kind))))

\* First statement of dskp02 / dskv02: the size query.
SizeStep(f, handle, dladsc, c) ==
    /\ Returned
    /\ inv' = [fn |-> f, args |-> <<handle, dladsc>>]
    /\ calls' = <<c>>
    /\ rets' = <<Raw(c, seg)>>
    /\ pc' = "sized"
    /\ ret' = NoRet
    /\ atSize' = SegNow(dladsc)
    /\ atFetch' = <<>>
    /\ UNCHANGED seg

\* Second statement: the fetch, with the count the size query returned.
\* r is the value of the tail expression, now the segment's count of the
\* fetched kind as the fetch runs.
FetchStep(f, c, r, now) ==
    /\ pc = "sized"
    /\ inv.fn = f
    /\ calls' = Append(calls, c)
    /\ rets' = Append(rets, Raw(c, seg))
    /\ pc' = "done"
    /\ ret' = r
    /\ atFetch' = <<now>>
    /\ UNCHANGED <<seg, inv, atSize>>

Do_dskp02_size(handle, dladsc) ==
    SizeStep("dskp02", handle, dladsc, dskp02_size(handle, dladsc))

Do_dskp02_fetch ==
    LET c == dskp02_fetch(inv.args[1], inv.args[2], rets[1].val)
    IN FetchStep("dskp02", c, dskp02_ret(Append(rets, Raw(c, seg))), seg[inv.args[2]].np)

Do_dskv02_size(handle, dladsc) ==
    SizeStep("dskv02", handle, dladsc, dskv02_size(handle, dladsc))

Do_dskv02_fetch ==
    LET c == dskv02_fetch(inv.args[1], inv.args[2], rets[1].val)
    IN FetchStep("dskv02", c, dskv02_ret(Append(rets, Raw(c, seg))), seg[inv.args[2]].nv)

\* Another caller of the library adds or removes one vertex (dv) or one plate
\* (dp) of segment dladsc; neat.rs takes no lock in the default build, so this
\* can run between any two raw calls of the observed caller.
OtherCaller(dladsc, dv, dp) ==
    /\ seg[dladsc].nv + dv \in Counts
    /\ seg[dladsc].np + dp \in Counts
    /\ seg' = [seg EXCEPT ![dladsc] = [nv |-> @.nv + dv, np |-> @.np + dp]]
    /\ UNCHANGED <<pc, inv, calls, rets, ret, atSize, atFetch>>

Init ==
    /\ seg \in [Dladscs -> [nv : Counts, np : Counts]]
    /\ pc = "idle"
    /\ inv = NoInv
    /\ calls = <<>>
    /\ rets = <<>>
    /\ ret = NoRet
    /\ atSize = <<>>
    /\ atFetch = <<>>

Next ==
    \/ \E code \in Codes : Do_bodc2n(code)
    \/ \E et \in Ets, b \in Bodies, lon \in Lons, t \in LonTypes : Do_et2lst(et, b, lon, t)
    \/ \E et \in Ets, p \in Pictures : Do_timout(et, p)
    \/ \E w \in Whichs, k \in Kinds : Do_kdata(w, k)
    \/ \E h \in Handles, d \in Dladscs : Do_dskp02_size(h, d)
    \/ Do_dskp02_fetch
    \/ \E h \in Handles, d \in Dladscs : Do_dskv02_size(h, d)
    \/ Do_dskv02_fetch
    \/ \E d \in Dladscs, delta \in {<<1, 0>>, <<-1, 0>>, <<0, 1>>, <<0, -1>>} :
          OtherCaller(d, delta[1], delta[2])

Spec == Init /\ [][Next]_vars

\* The observed caller alone: no other caller touches the library.
NextQuiet ==
    \/ \E code \in Codes : Do_bodc2n(code)
    \/ \E et \in Ets, b \in Bodies, lon \in Lons, t \in LonTypes : Do_et2lst(et, b, lon, t)
    \/ \E et \in Ets, p \in Pictures : Do_timout(et, p)
    \/ \E w \in Whichs, k \in Kinds : Do_kdata(w, k)
    \/ \E h \in Handles, d \in Dladscs : Do_dskp02_size(h, d)
    \/ Do_dskp02_fetch
    \/ \E h \in Handles, d \in Dladscs : Do_dskv02_size(h, d)
    \/ Do_dskv02_fetch

SpecQuiet == Init /\ [][NextQuiet]_vars

(***************************************************************************)
(* Properties                                                              *)
(***************************************************************************)
Single == {"bodc2n", "et2lst", "timout", "kdata"}
Double == {"dskp02", "dskv02"}
Ended == pc \in {"done", "raised"}

\* The leading arguments of raw call c are the caller's, in the caller's order.
Forwarded(c) == SubSeq(c.args, 1, Len(inv.args)) = inv.args

C2_Delegation ==
    (Ended /\ inv.fn \in Single) =>
        LET a == inv.args
            c == calls[1].args
        IN /\ calls[1].fn = inv.fn
           /\ Forwarded(calls[1])
           /\ ret = rets[1]
           /\ inv.fn = "bodc2n" => ret = raw_bodc2n(a[1], c[2])
           /\ inv.fn = "et2lst" => ret = raw_et2lst(a[1], a[2], a[3], a[4], c[5], c[6])
           /\ inv.fn = "timout" => ret = raw_timout(a[1], a[2], c[3])
           /\ inv.fn = "kdata" => ret = raw_kdata(a[1], a[2], c[3], c[4], c[5])

C2_Witness ==
    /\ pc = "done"
    /\ inv = [fn |-> "et2lst", args |-> <<2678400, 399, 90, "PLANETOCENTRIC">>]
    /\ ret.val = <<18, 0, 0, "18:00:00", "06:00:00 P.M.">>

C3_WitnessRaised ==
    /\ pc = "raised"
    /\ inv.fn = "et2lst"
    /\ ret = Raise("SPICE(UNKNOWNSYSTEM)")

\* C4 as claimed: whenever timout returns, it returns the complete string
\* formatted to the picture, no character cut off.
C4_TimoutComplete ==
    (pc = "done" /\ inv.fn = "timout") =>
        ret.val[1] = TimoutFormat(inv.args[1], inv.args[2])

\* C5: dskp02 asks raw::dskp02 for plates from number 1 on, with room for np
\* plates, np being the second component dskz02 returned for the same handle
\* and dladsc; it returns plates 1..np of that segment in order, np of them.
C5_AllPlates ==
    (pc = "done" /\ inv.fn = "dskp02") =>
        LET h == inv.args[1]
            d == inv.args[2]
            np == rets[1].val[2]
        IN /\ calls = << [fn |-> "dskz02", args |-> <<h, d>>],
                         [fn |-> "dskp02", args |-> <<h, d, 1, np>>] >>
           /\ np = seg[d].np
           /\ Len(ret.val) = np
           /\ \A i \in 1..np : ret.val[i] = PlateAt(d, i)

C5_Witness ==
    /\ pc = "done"
    /\ inv.fn = "dskp02"
    /\ rets[1].val = <<0, 2>>
    /\ ret.val = <<PlateAt(inv.args[2], 1), PlateAt(inv.args[2], 2)>>

\* C6: dskv02 asks raw::dskv02 for vertices from number 1 on, with room for
\* nv vertices, nv being the first component dskz02 returned for the same
\* handle and dladsc; it returns vertices 1..nv in order, nv of them.
C6_AllVertices ==
    (pc = "done" /\ inv.fn = "dskv02") =>
        LET h == inv.args[1]
            d == inv.args[2]
            nv == rets[1].val[1]
        IN /\ calls = << [fn |-> "dskz02", args |-> <<h, d>>],
                         [fn |-> "dskv02", args |-> <<h, d, 1, nv>>] >>
           /\ nv = seg[d].nv
           /\ Len(ret.val) = nv
           /\ \A i \in 1..nv : ret.val[i] = VertexAt(d, i)

C6_Witness ==
    /\ pc = "done"
    /\ inv.fn = "dskv02"
    /\ rets[1].val = <<2, 0>>
    /\ ret.val = <<VertexAt(inv.args[2], 1), VertexAt(inv.args[2], 2)>>

\* C8: every output-string length that bodc2n (one), et2lst (two) and kdata
\* (three) pass to the raw function is MAX_LEN_OUT, whatever the arguments
\* and whatever was called before.
C8_DefaultLengths ==
    \A i \in 1..Len(calls) :
        LET c == calls[i]
        IN /\ c.fn = "bodc2n" => c.args[2] = MAX_LEN_OUT
           /\ c.fn = "et2lst" => c.args[5] = MAX_LEN_OUT /\ c.args[6] = MAX_LEN_OUT
           /\ c.fn = "kdata" =>
                 /\ c.args[3] = MAX_LEN_OUT
                 /\ c.args[4] = MAX_LEN_OUT
                 /\ c.args[5] = MAX_LEN_OUT

C8_Witness ==
    /\ pc = "done"
    /\ inv = [fn |-> "kdata", args |-> <<0, "SPK">>]
    /\ calls[1].args = <<0, "SPK", MAX_LEN_OUT, MAX_LEN_OUT, MAX_LEN_OUT>>
    /\ ret.val[1] = "de432s.bsp"

\* C9: the output length timout passes to raw::timout is the byte length of
\* the picture (0 for the empty picture), and a string timout returns is
\* never longer than the picture.
C9_TimoutLength ==
    (Ended /\ inv.fn = "timout") =>
        /\ calls[1].args[3] = Len(inv.args[2])
        /\ pc = "done" => Len(ret.val[1]) <= Len(inv.args[2])

C9_Witness ==
    /\ pc = "done"
    /\ inv = [fn |-> "timout", args |-> <<2678400, "MON DD ::TDB">>]
    /\ calls[1].args[3] = 12
    /\ ret.val[1] = "FEB 01"

C9_WitnessEmpty ==
    /\ pc = "raised"
    /\ inv.fn = "timout"
    /\ calls[1].args = <<2678400, "", 0>>

\* C10 as claimed: the count dskp02 / dskv02 pass to the fetch is the
\* segment's count at the moment of the fetch, no change of the segment
\* running between the size query and the fetch.
C10_AtomicSizeAndFetch ==
    (pc = "done" /\ inv.fn \in Double) => <<calls[2].args[4]>> = atFetch

\* C10 as amended: the count passed to the fetch is the segment's count at
\* the moment of the size query (plates for dskp02, vertices for dskv02);
\* another caller may change the segment before the fetch runs.
C10_CountAtSizeQuery ==
    /\ (pc = "done" /\ inv.fn = "dskp02") => calls[2].args[4] = atSize[2]
    /\ (pc = "done" /\ inv.fn = "dskv02") => calls[2].args[4] = atSize[1]

C10_Witness ==
    /\ pc = "done"
    /\ inv.fn = "dskp02"
    /\ atSize[2] = 2
    /\ atFetch = <<1>>
    /\ Len(ret.val) = 1
====
